---- MODULE Spec2Model ----
(***************************************************************************)
(* Deployment log of script/cli: generate_deployment_log and its helpers   *)
(* (src/script/cli/src/util/deployment_log.rs).                            *)
(*                                                                         *)
(* JSON objects are functions from key strings to values, so an optional   *)
(* field is a key that is or is not in the DOMAIN (serde_json's is_null on *)
(* a missing key).  JSON arrays are sequences.                             *)
(***************************************************************************)
EXTENDS Integers, Sequences, FiniteSets, TLC

VARIABLES
    disk,      \* deployments/json/<chainId>.json: Absent or the stored log
    pc,        \* position of each running generate_deployment_log call
    local,     \* the locals of each call (address, deployments_json, ...)
    result,    \* what each call returned: "none", "Ok" or the error kind
    initLog,   \* the file as it was before the first registration (history variable)
    wrote,     \* addresses of the registrations that wrote the file, in order
               \* (history variable)
    chronicles,\* lib/forge-chronicles/index.js exists
    rc,        \* harness applying post_process_deployments_json to given logs
    sz,        \* harness applying extract_constructor_inputs to given arguments
    wf,        \* RegisterContractWorkflow and the stored RPC URL
    docFailed  \* addresses whose registration ended with the documentation
               \* generator missing (history variable)

vars == <<disk, pc, local, result, initLog, wrote, chronicles, rc, sz, wf,
          docFailed>>

-----------------------------------------------------------------------------
(* Bounds of the model *)

MaxAddr == 6      \* contract addresses 1..MaxAddr can be submitted
MaxWrites == 3    \* registrations start only while fewer writes happened
MaxRcLen == 3     \* longest history given to the reconciler harness
MaxRcTs == 2      \* timestamps 1..MaxRcTs in the reconciler harness
MaxNest == 2      \* tuples nested around an array parameter: 0..MaxNest
MaxSzDepth == 2   \* tuple nesting of the parameters in the serializer harness
MaxScreen == 5    \* next_screen is not called once current_screen is MaxScreen
MaxChild == 3     \* screens the pending child workflows can still supply

Procs == {"A", "B"}
SeqProcs == {"A"}

-----------------------------------------------------------------------------
(* JSON helpers *)

EmptyObject == [k \in {} |-> k]

Absent == [absent |-> TRUE]

HasKey(obj, k) == k \in DOMAIN obj

\* obj[k] = v on a serde_json object: inserts or replaces key k
SetKey(obj, k, v) ==
    [x \in (DOMAIN obj) \cup {k} |-> IF x = k THEN v ELSE obj[x]]

Reverse(s) == [i \in 1..Len(s) |-> s[Len(s) + 1 - i]]

-----------------------------------------------------------------------------
(* Addresses and their two renderings *)

\* The 20 bytes of an address, scaled down to two hex digits (nibbles).
AddrTable == << <<1, 2>>, <<10, 11>>, <<12, 3>>, <<4, 13>>, <<14, 7>>,
                <<15, 10>>, <<9, 11>>, <<13, 13>> >>

Address(i) == AddrTable[((i - 1) % Len(AddrTable)) + 1]

Addresses == 1..MaxAddr

HexLower == <<"0","1","2","3","4","5","6","7","8","9","a","b","c","d","e","f">>
HexUpper == <<"0","1","2","3","4","5","6","7","8","9","A","B","C","D","E","F">>

\* Stand-in for nibble i of keccak256 of the lower-case hex text (EIP-55).
HashNibble(a, i) == (3 * a[1] + 5 * a[2] + 7 * i) % 16

RECURSIVE LowerFrom(_, _)
LowerFrom(a, i) ==
    IF i > Len(a) THEN "" ELSE HexLower[a[i] + 1] \o LowerFrom(a, i + 1)

RECURSIVE ChecksumFrom(_, _)
ChecksumFrom(a, i) ==
    IF i > Len(a) THEN ""
    ELSE (IF HashNibble(a, i) >= 8 THEN HexUpper[a[i] + 1] ELSE HexLower[a[i] + 1])
         \o ChecksumFrom(a, i + 1)

\* serde's Serialize of alloy Address (json!({"address": contract_address})):
\* "0x" and lower-case hex digits
AddressToJson(a) == "0x" \o LowerFrom(a, 1)

\* Display of alloy Address (contract_address.to_string()): EIP-55 checksum,
\* a letter digit is upper-case when the hash nibble at its place is >= 8
AddressToString(a) == "0x" \o ChecksumFrom(a, 1)

-----------------------------------------------------------------------------
(* History Reconciler: post_process_deployments_json *)

\* insert e behind every element whose key is <= e's key
RECURSIVE InsertByTimestamp(_, _)
InsertByTimestamp(sorted, e) ==
    IF sorted = <<>> THEN <<e>>
    ELSE IF Head(sorted)["timestamp"] <= e["timestamp"]
         THEN <<Head(sorted)>> \o InsertByTimestamp(Tail(sorted), e)
         ELSE <<e>> \o sorted

\* history.sort_by_key(|k| k["timestamp"]): ascending and stable
RECURSIVE SortByKey(_)
SortByKey(h) ==
    IF h = <<>> THEN <<>>
    ELSE InsertByTimestamp(SortByKey(SubSeq(h, 1, Len(h) - 1)), h[Len(h)])

\* mutant: proxy is written as false instead of being copied from the record
LatestRecordNotProxy(item, v) ==
    LET base == [address |-> v["address"], proxy |-> FALSE,
                 deploymentTxn |-> v["deploymentTxn"],
                 timestamp |-> item["timestamp"]]
        withCommit == IF HasKey(item, "commitHash")
                      THEN SetKey(base, "commitHash", item["commitHash"])
                      ELSE base
    IN IF HasKey(v, "poolInitCodeHash")
       THEN SetKey(withCommit, "poolInitCodeHash", v["poolInitCodeHash"])
       ELSE withCommit

\* the json!({...}) assigned to latest[k], with the two optional fields
LatestRecord(item, v) ==
    LET base == [address |-> v["address"], proxy |-> v["proxy"],
                 deploymentTxn |-> v["deploymentTxn"],
                 timestamp |-> item["timestamp"]]
        withCommit == IF HasKey(item, "commitHash")
                      THEN SetKey(base, "commitHash", item["commitHash"])
                      ELSE base
    IN IF HasKey(v, "poolInitCodeHash")
       THEN SetKey(withCommit, "poolInitCodeHash", v["poolInitCodeHash"])
       ELSE withCommit

\* mutant: the comparison is turned round
KeepsOlder(latest, k, item) ==
    HasKey(latest, k) /\ latest[k]["timestamp"] < item["timestamp"]

\* mutant: an entry with the same timestamp does not replace the record
KeepsLatestOnTie(latest, k, item) ==
    HasKey(latest, k) /\ latest[k]["timestamp"] >= item["timestamp"]

\* the test of the inner loop: continue when latest[k] is newer than item
KeepsLatest(latest, k, item) ==
    HasKey(latest, k) /\ latest[k]["timestamp"] > item["timestamp"]

\* one pass of the outer loop: every (k, v) of item["contracts"]
FoldItem(latest, item) ==
    LET cs == item["contracts"] IN
    [k \in (DOMAIN latest) \cup (DOMAIN cs) |->
        IF k \in DOMAIN cs /\ ~KeepsLatest(latest, k, item)
        THEN LatestRecord(item, cs[k])
        ELSE latest[k]]

RECURSIVE FoldLatest(_, _, _)
FoldLatest(history, i, latest) ==
    IF i > Len(history) THEN latest
    ELSE FoldLatest(history, i + 1, FoldItem(latest, history[i]))

\* mutant: the reverse is left out
SortedAscending(h) == SortByKey(h)

SortedHistory(h) == Reverse(SortByKey(h))

\* mutant: latest is not emptied before it is computed again
PostProcessKeepingLatest(json) ==
    LET history == SortedHistory(json["history"]) IN
    SetKey(SetKey(json, "history", history),
           "latest", FoldLatest(history, 1, json["latest"]))

post_process_deployments_json(json) ==
    LET history == SortedHistory(json["history"]) IN
    SetKey(SetKey(json, "history", history),
           "latest", FoldLatest(history, 1, EmptyObject))

-----------------------------------------------------------------------------
(* ABI Value Serializer: serialize_value and extract_constructor_inputs.     *)
(* A DynSolValue is [kind, val]; a Param is [name, components].  A Result is *)
(* [ok |-> value] or [err |-> kind].                                         *)

Digits == <<"0","1","2","3","4","5","6","7","8","9">>

\* to_string of an unsigned integer
RECURSIVE DecimalString(_)
DecimalString(n) ==
    IF n < 10 THEN Digits[n + 1]
    ELSE DecimalString(n \div 10) \o Digits[(n % 10) + 1]

\* to_string of a signed integer
SignedString(n) == IF n < 0 THEN "-" \o DecimalString(0 - n) ELSE DecimalString(n)

\* hex::encode(DynSolValue::Bytes(b).abi_encode()): offset word, length word,
\* data; words scaled down to two hex digits
BytesAbiHex(b) ==
    LowerFrom(<<2, 0>>, 1) \o LowerFrom(<<0, Len(b) \div 2>>, 1) \o LowerFrom(b, 1)

IsErr(r) == HasKey(r, "err")

RECURSIVE ExtractFrom(_, _, _, _)
RECURSIVE serialize_value(_, _)
RECURSIVE ExtractFromSkipping(_, _, _, _)

\* mutant: a parameter that cannot be serialized is left out of the mapping
ExtractFromSkipping(params, args, i, res) ==
    IF i > Len(params) THEN [ok |-> res]
    ELSE LET r == serialize_value(params[i], args[i]) IN
         IF IsErr(r) THEN ExtractFromSkipping(params, args, i + 1, res)
         ELSE ExtractFromSkipping(params, args, i + 1,
                                  SetKey(res, params[i].name, r.ok))

serialize_value(param, value) ==
    CASE value.kind = "Address" -> [ok |-> AddressToString(value.val)]
      [] value.kind = "Bool" -> [ok |-> IF value.val THEN "true" ELSE "false"]
      [] value.kind = "FixedBytes" -> [ok |-> "0x" \o LowerFrom(value.val, 1)]
      [] value.kind = "Int" -> [ok |-> SignedString(value.val)]
      [] value.kind = "Uint" -> [ok |-> DecimalString(value.val)]
      [] value.kind = "String" -> [ok |-> value.val]
      [] value.kind = "Tuple" ->
            ExtractFrom(param.components, value.val, 1, EmptyObject)
      [] value.kind = "Function" -> [ok |-> "0x" \o LowerFrom(value.val, 1)]
      [] value.kind = "Bytes" -> [ok |-> BytesAbiHex(value.val)]
      [] value.kind = "Array" -> [err |-> "UnsupportedAbiType"]
      [] value.kind = "FixedArray" -> [err |-> "UnsupportedAbiType"]

\* the loop of extract_constructor_inputs from parameter i on
ExtractFrom(params, args, i, res) ==
    IF i > Len(params) THEN [ok |-> res]
    ELSE LET r == serialize_value(params[i], args[i]) IN
         IF IsErr(r) THEN r
         ELSE ExtractFrom(params, args, i + 1, SetKey(res, params[i].name, r.ok))

extract_constructor_inputs(constructor_params, args) ==
    ExtractFrom(constructor_params, args, 1, EmptyObject)

-----------------------------------------------------------------------------
(* The collaborators: what the explorer and the chain node answer for the   *)
(* contract at address i.  These are facts of the chain, fixed per address. *)

NameTable == <<"Foo", "Foo", "UniswapV2Factory", "Foo", "UniswapV3Factory",
               "UniswapV2Factory">>

TimestampTable == <<1, 1, 2, 2, 1, 1>>

Wrap(table, i) == table[((i - 1) % Len(table)) + 1]

\* contract_name of explorer_api.get_contract_data
ContractName(i) == Wrap(NameTable, i)

\* web3.get_block_timestamp_by_block_number of the creation block
BlockTimestamp(i) == Wrap(TimestampTable, i)

\* explorer_api.get_creation_transaction_hash
CreationTx(i) == "0x7" \o HexLower[(i % 16) + 1]

None == [none |-> TRUE]

Leaf(n) == [name |-> n, components |-> <<>>]

\* a parameter whose type is an array inside d nested tuples, and a value of it
RECURSIVE NestedParam(_)
NestedParam(d) ==
    IF d = 0 THEN Leaf("ids")
    ELSE [name |-> "cfg", components |-> <<Leaf("fee"), NestedParam(d - 1)>>]

RECURSIVE NestedValue(_, _)
NestedValue(d, kind) ==
    IF d = 0 THEN [kind |-> kind, val |-> <<[kind |-> "Uint", val |-> 1]>>]
    ELSE [kind |-> "Tuple",
          val |-> <<[kind |-> "Uint", val |-> 30], NestedValue(d - 1, kind)>>]

\* constructors with an array or fixed-size array parameter after an address
ArrayCases(i) ==
    {[constructor |-> [inputs |-> <<Leaf("owner"), NestedParam(d)>>],
      args |-> <<[kind |-> "Address", val |-> Address(i)], NestedValue(d, kind)>>] :
        d \in 0..MaxNest, kind \in {"Array", "FixedArray"}}

\* (constructor, decoded constructor arguments) the explorer can report
ConstructorCases(i) ==
    CASE ContractName(i) = "UniswapV2Factory" ->
            {[constructor |-> [inputs |-> <<Leaf("_feeToSetter")>>],
              args |-> <<[kind |-> "Address", val |-> Address(2)]>>]}
      [] ContractName(i) = "UniswapV3Factory" ->
            {[constructor |-> None, args |-> <<>>]}
      [] OTHER ->
            IF i % 2 = 1
            THEN {[constructor |-> [inputs |-> <<>>], args |-> <<>>]}
            ELSE {[constructor |->
                      [inputs |-> <<Leaf("owner"),
                                    [name |-> "cfg",
                                     components |-> <<Leaf("fee"), Leaf("on")>>]>>],
                   args |-> <<[kind |-> "Address", val |-> Address(i)],
                              [kind |-> "Tuple",
                               val |-> <<[kind |-> "Uint", val |-> 30],
                                         [kind |-> "Bool", val |-> TRUE]>>]>>],
                  [constructor |-> [inputs |-> <<Leaf("ids")>>],
                   args |-> <<[kind |-> "Array",
                               val |-> <<[kind |-> "Uint", val |-> 1]>>]>>]}
                 \cup ArrayCases(i)

\* web3.get_v2_pool_init_code_hash / get_v3_pool_init_code_hash, as to_string
\* of the FixedBytes<32> (scaled down to two hex digits)
V2PoolInitCodeHash(i) == "0x" \o LowerFrom(<<2, Address(i)[2]>>, 1)
V3PoolInitCodeHash(i) == "0x" \o LowerFrom(<<3, Address(i)[2]>>, 1)

\* network identifier the registrations are run for
ChainId == "1"

-----------------------------------------------------------------------------
(* Deployment Log Builder: the pieces of generate_deployment_log *)

\* mutant: the file is not read, every call starts from the initial log
LoadLogFresh(d) ==
    [chainId |-> ChainId, latest |-> EmptyObject, history |-> <<>>]

\* the file's content, or the initial log when the file does not exist
LoadLog(d) ==
    IF d = Absent
    THEN [chainId |-> ChainId, latest |-> EmptyObject, history |-> <<>>]
    ELSE d

\* TRUE when detect_duplicate returns Err
detect_duplicate(deployments_history, address) ==
    \E n \in 1..Len(deployments_history) :
        \E k \in DOMAIN deployments_history[n]["contracts"] :
            deployments_history[n]["contracts"][k]["address"] = address

\* mutant: the UniswapV3Factory branch is missing
PoolInitCodeHashV2Only(contract_name, i) ==
    IF contract_name = "UniswapV2Factory" THEN [some |-> V2PoolInitCodeHash(i)]
    ELSE None

\* pool_init_code_hash: Some only for the two factory names
PoolInitCodeHash(contract_name, i) ==
    IF contract_name = "UniswapV2Factory" THEN [some |-> V2PoolInitCodeHash(i)]
    ELSE IF contract_name = "UniswapV3Factory" THEN [some |-> V3PoolInitCodeHash(i)]
    ELSE None

\* input.constructor: Ok(object) or Err
ConstructorInput(ctor) ==
    IF ctor.constructor = None THEN [ok |-> EmptyObject]
    ELSE extract_constructor_inputs(ctor.constructor.inputs, ctor.args)

\* contract_data: the new history entry
ContractData(contract_name, i, tx_hash, timestamp, ctorJson, pool) ==
    LET rec == [address |-> AddressToJson(Address(i)),
                proxy |-> FALSE,
                deploymentTxn |-> tx_hash,
                input |-> [constructor |-> ctorJson]]
        full == IF pool = None THEN rec
                ELSE SetKey(rec, "poolInitCodeHash", pool.some)
    IN [contracts |-> (contract_name :> full), timestamp |-> timestamp]

\* mutant: the push is left out
PushHistoryForgotten(json, contract_data) == json

\* mutant: the history is replaced by the new entry instead of extended
PushHistoryReplacing(json, contract_data) ==
    SetKey(json, "history", <<contract_data>>)

\* deployments_json["history"].push(contract_data)
PushHistory(json, contract_data) ==
    SetKey(json, "history", Append(json["history"], contract_data))

-----------------------------------------------------------------------------
(* Logs that exist before the first registration: none, or a file produced  *)
(* outside this program (addresses in checksum form, commitHash, several    *)
(* contracts in one entry, a latest map that does not match, any order).    *)

ExternalRecord(i) ==
    [address |-> AddressToString(Address(i)),
     proxy |-> FALSE,
     deploymentTxn |-> CreationTx(i),
     input |-> [constructor |-> EmptyObject]]

ExternalEntry(i) ==
    [timestamp |-> BlockTimestamp(i),
     contracts |-> (ContractName(i) :> ExternalRecord(i))]

CommittedEntry(i, commit) == SetKey(ExternalEntry(i), "commitHash", commit)

PairEntry(i, j, commit) ==
    [timestamp |-> BlockTimestamp(i),
     commitHash |-> commit,
     contracts |-> (ContractName(i) :> ExternalRecord(i))
                   @@ (ContractName(j) :> ExternalRecord(j))]

StaleLatest ==
    ("Gone" :> [address |-> "0x00", proxy |-> FALSE,
                deploymentTxn |-> "0x70", timestamp |-> 1])

ExternalLogs ==
    { [chainId |-> ChainId, latest |-> StaleLatest,
       history |-> <<CommittedEntry(1, "c1"), ExternalEntry(4)>>],
      [chainId |-> ChainId, latest |-> EmptyObject,
       history |-> <<ExternalEntry(2), CommittedEntry(1, "c1")>>],
      [chainId |-> ChainId, latest |-> EmptyObject,
       history |-> <<PairEntry(4, 3, "c2")>>] }

-----------------------------------------------------------------------------
(* State machine of the registrations *)

Idle == [p \in Procs |-> "idle"]
NoLocals == [p \in Procs |-> EmptyObject]
NoResults == [p \in Procs |-> "none"]
RcOff == [stage |-> "off"]
SzOff == [stage |-> "off"]
WfOff == [stage |-> "off"]

Init ==
    /\ disk \in {Absent} \cup ExternalLogs
    /\ initLog = disk
    /\ pc = Idle
    /\ local = NoLocals
    /\ result = NoResults
    /\ wrote = <<>>
    /\ chronicles = FALSE
    /\ rc = RcOff
    /\ sz = SzOff
    /\ wf = WfOff
    /\ docFailed = {}

\* return Err(kind): the call ends, its locals are dropped except what the
\* caller knows (the address) and the history variable `before`
Fail(p, kind) ==
    /\ pc' = [pc EXCEPT ![p] = "done"]
    /\ result' = [result EXCEPT ![p] = kind]
    /\ local' = [local EXCEPT ![p] = [contract_address |-> local[p].contract_address,
                                      before |-> local[p].before]]

\* lines 21-35: a call starts for address i and loads the file
Load(p) ==
    /\ pc[p] = "idle"
    /\ Len(wrote) < MaxWrites
    /\ \E i \in Addresses :
          local' = [local EXCEPT ![p] = [contract_address |-> i,
                                         before |-> disk,
                                         deployments_json |-> LoadLog(disk)]]
    /\ pc' = [pc EXCEPT ![p] = "loaded"]
    /\ UNCHANGED <<disk, result, initLog, wrote, chronicles, rc, sz, wf, docFailed>>

\* lines 37-51: explorer lookup, then the artifact check
GetContractData(p) ==
    /\ pc[p] = "loaded"
    /\ \/ Fail(p, "ExplorerError")
       \/ Fail(p, "ArtifactNotFound")
       \/ /\ \E ctor \in ConstructorCases(local[p].contract_address) :
                local' = [local EXCEPT ![p] =
                    local[p] @@ [contract_name |-> ContractName(local[p].contract_address),
                                 ctor |-> ctor]]
          /\ pc' = [pc EXCEPT ![p] = "named"]
          /\ UNCHANGED result
    /\ UNCHANGED <<disk, initLog, wrote, chronicles, rc, sz, wf, docFailed>>

\* lines 53-56
DetectDuplicate(p) ==
    /\ pc[p] = "named"
    /\ IF detect_duplicate(local[p].deployments_json["history"],
                           AddressToString(Address(local[p].contract_address)))
       THEN Fail(p, "DuplicateContract")
       ELSE /\ pc' = [pc EXCEPT ![p] = "checked"]
            /\ UNCHANGED <<local, result>>
    /\ UNCHANGED <<disk, initLog, wrote, chronicles, rc, sz, wf, docFailed>>

\* lines 58-118: the chain queries, the constructor input, the new entry
BuildEntry(p) ==
    /\ pc[p] = "checked"
    /\ LET i == local[p].contract_address
           name == local[p].contract_name
           input == ConstructorInput(local[p].ctor)
       IN \/ Fail(p, "ExplorerError")
          \/ Fail(p, "ChainError")
          \/ /\ local[p].ctor.constructor # None
             /\ Fail(p, "DecodeError")
          \/ /\ IsErr(input)
             /\ Fail(p, input.err)
          \/ /\ ~IsErr(input)
             /\ local' = [local EXCEPT ![p] =
                   [contract_address |-> i,
                    before |-> local[p].before,
                    contract_name |-> name,
                    contract_data |->
                        ContractData(name, i, CreationTx(i), BlockTimestamp(i),
                                     input.ok, PoolInitCodeHash(name, i)),
                    deployments_json |->
                        PushHistory(local[p].deployments_json,
                            ContractData(name, i, CreationTx(i), BlockTimestamp(i),
                                         input.ok, PoolInitCodeHash(name, i)))]]
             /\ pc' = [pc EXCEPT ![p] = "built"]
             /\ UNCHANGED result
    /\ UNCHANGED <<disk, initLog, wrote, chronicles, rc, sz, wf, docFailed>>

\* lines 120-125: create_dir_all, reconcile, write the whole file
Persist(p) ==
    /\ pc[p] = "built"
    /\ \/ /\ Fail(p, "IoError")
          /\ UNCHANGED <<disk, wrote>>
       \/ /\ disk' = post_process_deployments_json(local[p].deployments_json)
          /\ wrote' = Append(wrote, local[p].contract_address)
          /\ pc' = [pc EXCEPT ![p] = "written"]
          /\ local' = [local EXCEPT ![p] =
                [contract_address |-> local[p].contract_address,
                 before |-> local[p].before,
                 contract_name |-> local[p].contract_name,
                 contract_data |-> local[p].contract_data]]
          /\ UNCHANGED result
    /\ UNCHANGED <<initLog, chronicles, rc, sz, wf, docFailed>>

\* lines 127-146: forge-chronicles must be installed; its run is not checked
GenerateDocs(p) ==
    /\ pc[p] = "written"
    /\ pc' = [pc EXCEPT ![p] = "done"]
    /\ result' = [result EXCEPT ![p] =
                    IF chronicles THEN "Ok" ELSE "DocGeneratorMissing"]
    /\ docFailed' = IF chronicles THEN docFailed
                    ELSE docFailed \cup {local[p].contract_address}
    /\ UNCHANGED <<disk, local, initLog, wrote, chronicles, rc, sz, wf>>

\* the caller takes the result; the next call can start
Return(p) ==
    /\ pc[p] = "done"
    /\ pc' = [pc EXCEPT ![p] = "idle"]
    /\ local' = [local EXCEPT ![p] = EmptyObject]
    /\ result' = [result EXCEPT ![p] = "none"]
    /\ UNCHANGED <<disk, initLog, wrote, chronicles, rc, sz, wf, docFailed>>

\* the operator runs 'forge install 0xPolygon/forge-chronicles'
InstallChronicles ==
    /\ ~chronicles
    /\ chronicles' = TRUE
    /\ UNCHANGED <<disk, pc, local, result, initLog, wrote, rc, sz, wf, docFailed>>

\* one registration at a time
Next ==
    \/ \E p \in SeqProcs :
          \/ Load(p)
          \/ GetContractData(p)
          \/ DetectDuplicate(p)
          \/ BuildEntry(p)
          \/ Persist(p)
          \/ GenerateDocs(p)
          \/ Return(p)
    \/ InstallChronicles

Spec == Init /\ [][Next]_vars

\* one registration per caller, the callers interleaving step by step:
\* nothing locks the file between a call's load and its write
NextConc ==
    \/ \E p \in Procs :
          \/ Load(p)
          \/ GetContractData(p)
          \/ DetectDuplicate(p)
          \/ BuildEntry(p)
          \/ Persist(p)
          \/ GenerateDocs(p)
    \/ InstallChronicles

InitConc == Init /\ disk = Absent

SpecConc == InitConc /\ [][NextConc]_vars

-----------------------------------------------------------------------------
(* Harness for the reconciler alone: post_process_deployments_json applied  *)
(* to a log, and again to its own output.                                   *)

RcNames == {"Foo", "UniswapV2Factory"}

\* record variant a of a contract: variant 2 comes from a file written by
\* another tool (checksum address, marked as a proxy), variant 1 from this
\* program
RcRecord(name, a) ==
    LET i == IF name = "Foo" THEN a ELSE a + 3
        rec == [address |-> IF a = 1 THEN AddressToJson(Address(i))
                            ELSE AddressToString(Address(i)),
                proxy |-> (a = 2),
                deploymentTxn |-> CreationTx(i),
                input |-> [constructor |-> EmptyObject]]
    IN IF name = "UniswapV2Factory" /\ a = 1
       THEN SetKey(rec, "poolInitCodeHash", V2PoolInitCodeHash(i))
       ELSE rec

RcEntry(name, a, ts) ==
    LET e == [timestamp |-> ts, contracts |-> (name :> RcRecord(name, a))]
    IN IF a = 1 THEN e ELSE SetKey(e, "commitHash", "c1")

RcPairEntry(ts) ==
    [timestamp |-> ts,
     commitHash |-> "c2",
     contracts |-> [n \in RcNames |-> RcRecord(n, 3)]]

RcEntries ==
    {RcEntry(n, a, ts) : n \in RcNames, a \in 1..2, ts \in 1..MaxRcTs}
    \cup {RcPairEntry(ts) : ts \in 1..MaxRcTs}

RcInputs ==
    {[chainId |-> ChainId, latest |-> StaleLatest, history |-> h] :
        h \in UNION {[1..n -> RcEntries] : n \in 0..MaxRcLen}}

InitReconcile ==
    /\ disk = Absent
    /\ initLog = Absent
    /\ pc = Idle
    /\ local = NoLocals
    /\ result = NoResults
    /\ wrote = <<>>
    /\ chronicles = FALSE
    /\ sz = SzOff
    /\ wf = WfOff
    /\ docFailed = {}
    /\ rc \in {[stage |-> "input", json |-> j] : j \in RcInputs}

ReconcileOnce ==
    /\ rc.stage = "input"
    /\ rc' = [stage |-> "once", json |-> rc.json,
              once |-> post_process_deployments_json(rc.json)]
    /\ UNCHANGED <<disk, pc, local, result, initLog, wrote, chronicles, sz, wf,
                 docFailed>>

ReconcileTwice ==
    /\ rc.stage = "once"
    /\ rc' = [stage |-> "twice", json |-> rc.json, once |-> rc.once,
              twice |-> post_process_deployments_json(rc.once)]
    /\ UNCHANGED <<disk, pc, local, result, initLog, wrote, chronicles, sz, wf,
                 docFailed>>

NextReconcile == ReconcileOnce \/ ReconcileTwice

SpecReconcile == InitReconcile /\ [][NextReconcile]_vars

-----------------------------------------------------------------------------
(* extract_constructor_inputs applied to given parameter lists.  A shape is *)
(* a parameter together with a value of its type; parameter names may be    *)
(* empty (unnamed parameters) or repeated.                                  *)

SzNames == {"", "a"}

SzLeaves == {[param |-> Leaf(n), value |-> [kind |-> "Uint", val |-> 7]] :
                n \in SzNames}

\* the lists of shapes a tuple or a constructor takes, built from shapes S
SzLists(S) ==
    {<<>>} \cup {<<s>> : s \in S} \cup {<<s, l>> : s \in S, l \in SzLeaves}

SzParams(list) == [n \in 1..Len(list) |-> list[n].param]
SzValues(list) == [n \in 1..Len(list) |-> list[n].value]

RECURSIVE SzShapes(_)
SzShapes(d) ==
    IF d = 0 THEN SzLeaves
    ELSE SzLeaves \cup
         {[param |-> [name |-> n, components |-> SzParams(list)],
           value |-> [kind |-> "Tuple", val |-> SzValues(list)]] :
             n \in SzNames, list \in SzLists(SzShapes(d - 1))}

SzInputs ==
    {[params |-> SzParams(list), args |-> SzValues(list)] :
        list \in SzLists(SzShapes(MaxSzDepth))}

InitSerialize ==
    /\ disk = Absent
    /\ initLog = Absent
    /\ pc = Idle
    /\ local = NoLocals
    /\ result = NoResults
    /\ wrote = <<>>
    /\ chronicles = FALSE
    /\ rc = RcOff
    /\ wf = WfOff
    /\ docFailed = {}
    /\ sz \in {[stage |-> "input", params |-> in.params, args |-> in.args] :
                  in \in SzInputs}

Serialize ==
    /\ sz.stage = "input"
    /\ sz' = [stage |-> "done", params |-> sz.params, args |-> sz.args,
              out |-> extract_constructor_inputs(sz.params, sz.args)]
    /\ UNCHANGED <<disk, pc, local, result, initLog, wrote, chronicles, rc, wf,
                 docFailed>>

NextSerialize == Serialize

SpecSerialize == InitSerialize /\ [][NextSerialize]_vars

-----------------------------------------------------------------------------
(* RegisterContractWorkflow (register_contract.rs).  A WorkflowResult is    *)
(* "Finished" or the name of the screen of NextScreen(screen); the screen   *)
(* of a child workflow is "ChildScreen".  The stored RPC URL is the         *)
(* rpc_url of STATE_MANAGER.app_state: None or a URL.                       *)

\* Some(url)
SomeUrl == [some |-> "http://rpc"]

Errors == {"ConnectionError", "OtherError"}

get_screen(current_screen) ==
    CASE current_screen = 1 -> "ChainIdScreen"
      [] current_screen = 2 -> "RpcUrlScreen"
      [] current_screen = 3 -> "EnterAddressScreen"
      [] OTHER -> "Finished"

\* process_nested_workflows: the new workflows join the pending ones; while
\* the pending child workflows have a screen to show it is the next screen,
\* otherwise they report Finished.  child_workflows counts the screens the
\* pending child workflows still supply.
process_nested_workflows(child_workflows, new_workflows) ==
    LET pending == child_workflows + new_workflows IN
    IF pending > 0
    THEN [result |-> "ChildScreen", child_workflows |-> pending - 1]
    ELSE [result |-> "Finished", child_workflows |-> 0]

\* mutant: current_screen advances whatever the child workflows report
NextIndexAlways(current_screen, nested) == current_screen + 1

\* current_screen after next_screen, given the result of the child workflows
NextIndex(current_screen, nested) ==
    IF nested = "Finished" THEN current_screen + 1 ELSE current_screen

\* mutant: the test is > 0
PreviousIndexToZero(current_screen) ==
    IF current_screen > 0 THEN current_screen - 1 ELSE current_screen

\* current_screen after previous_screen
PreviousIndex(current_screen) ==
    IF current_screen > 1 THEN current_screen - 1 ELSE current_screen

\* mutant: a ConnectionError is recovered from at every screen
ErrorOutcomeAnyScreen(current_screen, error, rpc_url) ==
    IF error = "ConnectionError"
    THEN [result |-> "RpcUrlScreen", rpc_url |-> None]
    ELSE [result |-> "Finished", rpc_url |-> rpc_url]

\* the match of handle_error: the WorkflowResult and the stored RPC URL
ErrorOutcome(current_screen, error, rpc_url) ==
    IF current_screen = 2 /\ error = "ConnectionError"
    THEN [result |-> "RpcUrlScreen", rpc_url |-> None]
    ELSE [result |-> "Finished", rpc_url |-> rpc_url]

\* `shown` is the WorkflowResult of the last call; `last` records the last
\* call and the values before it; `straight` is the sequence of results as
\* long as every call was a next_screen without child workflows, which
\* `onlyNext` tells; `firstShown` tells that the first screen has been shown

NewWorkflow(rpc_url) ==
    [stage |-> "on", current_screen |-> 0, child_workflows |-> 0,
     rpc_url |-> rpc_url, shown |-> "none", last |-> [op |-> "new"],
     straight |-> <<>>, onlyNext |-> TRUE, firstShown |-> FALSE]

InitWorkflow ==
    /\ disk = Absent
    /\ initLog = Absent
    /\ pc = Idle
    /\ local = NoLocals
    /\ result = NoResults
    /\ wrote = <<>>
    /\ chronicles = FALSE
    /\ rc = RcOff
    /\ sz = SzOff
    /\ docFailed = {}
    /\ wf \in {NewWorkflow(u) : u \in {None, SomeUrl}}

Others == <<disk, pc, local, result, initLog, wrote, chronicles, rc, sz, docFailed>>

\* lines 23-31
next_screen ==
    /\ wf.stage = "on"
    /\ wf.current_screen < MaxScreen
    /\ \E new_workflows \in 0..MaxChild :
          /\ wf.child_workflows + new_workflows <= MaxChild
          /\ LET nested == process_nested_workflows(wf.child_workflows, new_workflows)
                 screen == NextIndex(wf.current_screen, nested.result)
                 shown == IF nested.result = "Finished" THEN get_screen(screen)
                          ELSE nested.result
             IN wf' = [wf EXCEPT
                    !.current_screen = screen,
                    !.child_workflows = nested.child_workflows,
                    !.shown = shown,
                    !.last = [op |-> "next", current_screen |-> wf.current_screen,
                              nested |-> nested.result],
                    !.onlyNext = wf.onlyNext /\ new_workflows = 0
                                 /\ wf.child_workflows = 0,
                    !.straight = IF wf.onlyNext /\ new_workflows = 0
                                    /\ wf.child_workflows = 0
                                 THEN Append(wf.straight, shown) ELSE <<>>,
                    !.firstShown = wf.firstShown \/ shown = "ChainIdScreen"]
    /\ UNCHANGED Others

\* lines 33-38
previous_screen ==
    /\ wf.stage = "on"
    /\ wf' = [wf EXCEPT
           !.current_screen = PreviousIndex(wf.current_screen),
           !.shown = get_screen(PreviousIndex(wf.current_screen)),
           !.last = [op |-> "previous", current_screen |-> wf.current_screen],
           !.straight = <<>>,
           !.onlyNext = FALSE,
           !.firstShown = wf.firstShown
                          \/ get_screen(PreviousIndex(wf.current_screen))
                             = "ChainIdScreen"]
    /\ UNCHANGED Others

\* lines 40-52
handle_error ==
    /\ wf.stage = "on"
    /\ \E error \in Errors :
          LET out == ErrorOutcome(wf.current_screen, error, wf.rpc_url) IN
          wf' = [wf EXCEPT
              !.rpc_url = out.rpc_url,
              !.shown = out.result,
              !.last = [op |-> "error", current_screen |-> wf.current_screen,
                        error |-> error, rpc_url |-> wf.rpc_url],
              !.straight = <<>>,
              !.onlyNext = FALSE]
    /\ UNCHANGED Others

\* the RPC URL screen stores the URL the user entered
SetRpcUrl ==
    /\ wf.stage = "on"
    /\ wf.shown = "RpcUrlScreen"
    /\ wf.rpc_url = None
    /\ wf' = [wf EXCEPT !.rpc_url = SomeUrl, !.last = [op |-> "url"]]
    /\ UNCHANGED Others

NextWorkflow == next_screen \/ previous_screen \/ handle_error \/ SetRpcUrl

SpecWorkflow == InitWorkflow /\ [][NextWorkflow]_vars

-----------------------------------------------------------------------------
(* Vocabulary of the properties *)

\* the history a log holds (none when the file is absent)
HistoryOf(d) == IF d = Absent THEN <<>> ELSE d["history"]

\* the places <<n, k>> of the contract records of a history
Places(h) ==
    UNION {{<<n, k>> : k \in DOMAIN h[n]["contracts"]} : n \in 1..Len(h)}

\* the contract names that occur in a history
NamesIn(h) == UNION {DOMAIN h[n]["contracts"] : n \in 1..Len(h)}

\* the entries of a history that contain name k
EntriesWith(h, k) == {n \in 1..Len(h) : k \in DOMAIN h[n]["contracts"]}

\* the greatest timestamp among the entries that contain name k
MaxTimestamp(h, k) ==
    CHOOSE t \in {h[n]["timestamp"] : n \in EntriesWith(h, k)} :
        \A n \in EntriesWith(h, k) : h[n]["timestamp"] <= t

\* the entries containing k that carry that greatest timestamp
TiedAtMax(h, k) ==
    {n \in EntriesWith(h, k) : h[n]["timestamp"] = MaxTimestamp(h, k)}

FirstOf(S) == CHOOSE n \in S : \A m \in S : n <= m
LastOf(S) == CHOOSE n \in S : \A m \in S : m <= n

\* optional field f is carried over from src to dst
SameOptional(dst, src, f) ==
    /\ HasKey(dst, f) <=> HasKey(src, f)
    /\ HasKey(src, f) => dst[f] = src[f]

\* the latest record lat is the projection of record k of entry item
TakenFrom(lat, item, k) ==
    /\ lat["address"] = item["contracts"][k]["address"]
    /\ lat["deploymentTxn"] = item["contracts"][k]["deploymentTxn"]
    /\ lat["timestamp"] = item["timestamp"]
    /\ SameOptional(lat, item, "commitHash")
    /\ SameOptional(lat, item["contracts"][k], "poolInitCodeHash")

SortedDescending(h) ==
    \A n \in 1..(Len(h) - 1) : h[n]["timestamp"] >= h[n + 1]["timestamp"]

\* the logs the reconciler harness has produced so far
RcOutputs ==
    (IF rc.stage \in {"once", "twice"} THEN {rc.once} ELSE {})
    \cup (IF rc.stage = "twice" THEN {rc.twice} ELSE {})

\* text is a rendering of address i (hex digits compared without case)
DenotesAddress(text, i) ==
    text \in {AddressToJson(Address(i)), AddressToString(Address(i))}

\* the places of a history whose record carries address i
PlacesOfAddress(h, i) ==
    {pl \in Places(h) : DenotesAddress(h[pl[1]]["contracts"][pl[2]]["address"], i)}

\* call p is running or has just ended, for some address
Started(p) == HasKey(local[p], "contract_address")

\* call p has written the file (and the caller has not taken the result yet)
HasWritten(p) == pc[p] \in {"written", "done"} /\ HasKey(local[p], "contract_data")

NoRepeats(s) == \A m, n \in 1..Len(s) : s[m] = s[n] => m = n

-----------------------------------------------------------------------------
(* C1: a registration whose address is already carried by a record of the   *)
(* loaded history never gets past the duplicate check: it ends with         *)
(* DuplicateContract (or with an error of the lookups before the check) and *)
(* the file is as it was.                                                   *)
C1_DuplicateRejected ==
    \A p \in Procs :
        (Started(p) /\ PlacesOfAddress(HistoryOf(local[p].before),
                                       local[p].contract_address) # {})
        => /\ pc[p] \notin {"checked", "built", "written"}
           /\ pc[p] = "done" =>
                 /\ result[p] \in {"DuplicateContract", "ExplorerError",
                                   "ArtifactNotFound"}
                 /\ disk = local[p].before

(* C2: from an absent log, when the registrations that wrote the file had   *)
(* pairwise distinct addresses, history is as long as the number of writes  *)
(* and each written address is carried by exactly one record.               *)
C2_DistinctRegistrations ==
    (initLog = Absent /\ NoRepeats(wrote))
    => /\ Len(HistoryOf(disk)) = Len(wrote)
       /\ \A n \in 1..Len(wrote) :
             Cardinality(PlacesOfAddress(HistoryOf(disk), wrote[n])) = 1

C2_Witness ==
    /\ initLog = Absent
    /\ NoRepeats(wrote)
    /\ Len(wrote) >= 3
    /\ pc["A"] = "done"
    /\ result["A"] = "Ok"

(* C3: in every log a registration has written, latest[name].timestamp is   *)
(* the greatest timestamp of the history entries that contain name.         *)
C3_LatestIsNewest ==
    Len(wrote) > 0 =>
        \A k \in NamesIn(disk["history"]) :
            /\ HasKey(disk["latest"], k)
            /\ disk["latest"][k]["timestamp"] = MaxTimestamp(disk["history"], k)

\* Foo registered at timestamp 1 and then at timestamp 2
C3_Witness ==
    /\ wrote = <<1, 4>>
    /\ pc["A"] = "written"
    /\ disk["latest"]["Foo"]["timestamp"] = 2
    /\ Len(disk["history"]) > 1
    /\ disk["history"][1]["timestamp"] = 2

(* C4 as claimed: among the entries tied at the greatest timestamp of a     *)
(* name, latest[name] is taken from the one that comes first in the sorted  *)
(* history.                                                                 *)
C4_FirstTiedWins ==
    \A out \in RcOutputs :
        \A k \in NamesIn(out["history"]) :
            TakenFrom(out["latest"][k],
                      out["history"][FirstOf(TiedAtMax(out["history"], k))], k)

(* C4 amended: among the entries tied at the greatest timestamp of a name,  *)
(* latest[name] is taken from the one that comes last in the sorted         *)
(* history: every tied entry scanned later replaces the earlier one.        *)
C4_LastTiedWins ==
    \A out \in RcOutputs :
        \A k \in NamesIn(out["history"]) :
            TakenFrom(out["latest"][k],
                      out["history"][LastOf(TiedAtMax(out["history"], k))], k)

\* two tied entries for one name whose records differ
C4_Witness ==
    /\ rc.stage = "once"
    /\ \E k \in NamesIn(rc.once["history"]) :
          LET tied == TiedAtMax(rc.once["history"], k) IN
          /\ Cardinality(tied) >= 2
          /\ rc.once["history"][FirstOf(tied)]["contracts"][k]["address"]
             # rc.once["history"][LastOf(tied)]["contracts"][k]["address"]

(* C5: applying the reconciler to its own output gives the same latest and  *)
(* the same order of history.                                               *)
C5_Idempotent ==
    rc.stage = "twice" =>
        /\ rc.twice["latest"] = rc.once["latest"]
        /\ rc.twice["history"] = rc.once["history"]

(* C6: in every log a registration has written, history is sorted by        *)
(* timestamp, newest first.                                                 *)
C6_HistorySorted ==
    Len(wrote) > 0 => SortedDescending(disk["history"])

\* the loaded file was not sorted
C6_Witness ==
    /\ ~SortedDescending(HistoryOf(initLog))
    /\ pc["A"] = "written"
    /\ Len(wrote) = 1

(* C7: whenever a registration has returned an error, the file is as it was *)
(* when the registration started.                                           *)
C7_FailureLeavesLog ==
    \A p \in SeqProcs :
        (pc[p] = "done" /\ result[p] # "Ok") => disk = local[p].before

(* C8: when two calls for different addresses loaded the same file and both *)
(* have written, the file holds one entry more than the file they loaded:   *)
(* the entry of the call that wrote last; the other call's entry is gone.   *)
C8_LaterWriteDropsEarlier ==
    \A p, q \in Procs :
        (/\ p # q
         /\ HasWritten(p) /\ HasWritten(q)
         /\ local[p].before = local[q].before
         /\ local[p].contract_address # local[q].contract_address
         /\ wrote[Len(wrote)] = local[p].contract_address)
        => /\ Len(disk["history"]) = Len(HistoryOf(local[p].before)) + 1
           /\ PlacesOfAddress(disk["history"], local[p].contract_address) # {}
           /\ PlacesOfAddress(disk["history"], local[q].contract_address) = {}

\* both calls returned Ok and the file holds the entry of one of them only
C8_Witness ==
    /\ result["A"] = "Ok" /\ result["B"] = "Ok"
    /\ local["A"].contract_address # local["B"].contract_address
    /\ Len(wrote) = 2
    /\ Len(disk["history"]) = 1
    /\ PlacesOfAddress(disk["history"], local["A"].contract_address) = {}
    /\ PlacesOfAddress(disk["history"], local["B"].contract_address) # {}

-----------------------------------------------------------------------------
(* Vocabulary of C9 and C10: the registration that has just written *)

IsFactory(name) == name \in {"UniswapV2Factory", "UniswapV3Factory"}

\* the record the call built for its contract
OwnRecord(p) == local[p].contract_data["contracts"][local[p].contract_name]

\* the call's entry is an entry of the stored history
OwnEntryStored(p) ==
    \E n \in 1..Len(disk["history"]) : disk["history"][n] = local[p].contract_data

\* every entry for the same name in the loaded history is older than the new one
NewerThanLoaded(p) ==
    \A n \in EntriesWith(HistoryOf(local[p].before), local[p].contract_name) :
        HistoryOf(local[p].before)[n]["timestamp"]
            < local[p].contract_data["timestamp"]

Count(e, s) == Cardinality({n \in 1..Len(s) : s[n] = e})

\* s and t hold the same entries, each as often
SameEntries(s, t) ==
    /\ Len(s) = Len(t)
    /\ \A n \in 1..Len(s) : Count(s[n], s) = Count(s[n], t)

RemoveAt(s, n) == SubSeq(s, 1, n - 1) \o SubSeq(s, n + 1, Len(s))

(* C9 as claimed: a registration of UniswapV2Factory puts poolInitCodeHash  *)
(* into its history record and into latest[UniswapV2Factory]; a             *)
(* registration of any other name puts it into neither.                     *)
C9_OnlyV2Factory ==
    \A p \in SeqProcs :
        pc[p] = "written" =>
            LET name == local[p].contract_name IN
            /\ OwnEntryStored(p)
            /\ HasKey(OwnRecord(p), "poolInitCodeHash") <=> name = "UniswapV2Factory"
            /\ HasKey(disk["latest"][name], "poolInitCodeHash")
                   <=> name = "UniswapV2Factory"

(* C9 amended: a registration of UniswapV2Factory or UniswapV3Factory puts  *)
(* poolInitCodeHash into its history record, a registration of any other    *)
(* name does not; latest[name] is taken from the new record, with or        *)
(* without the hash accordingly, whenever the new entry is newer than every *)
(* loaded entry for that name.                                              *)
C9_FactoriesOnly ==
    \A p \in SeqProcs :
        pc[p] = "written" =>
            LET name == local[p].contract_name IN
            /\ OwnEntryStored(p)
            /\ HasKey(OwnRecord(p), "poolInitCodeHash") <=> IsFactory(name)
            /\ NewerThanLoaded(p) =>
                  /\ TakenFrom(disk["latest"][name], local[p].contract_data, name)
                  /\ HasKey(disk["latest"][name], "poolInitCodeHash")
                         <=> IsFactory(name)

\* a UniswapV3Factory was registered: its record and latest carry its hash
C9_Witness ==
    /\ pc["A"] = "written"
    /\ local["A"].contract_name = "UniswapV3Factory"
    /\ NewerThanLoaded("A")
    /\ HasKey(disk["latest"]["UniswapV3Factory"], "poolInitCodeHash")
    /\ disk["latest"]["UniswapV3Factory"]["poolInitCodeHash"]
           = OwnRecord("A")["poolInitCodeHash"]

(* C10: the log a registration writes holds every entry of the loaded log   *)
(* unchanged and exactly one more entry; that entry holds one contract, the *)
(* registered one, with proxy = false and without commitHash; chainId is    *)
(* the loaded one.                                                          *)
C10_OnlyAppends ==
    \A p \in SeqProcs :
        pc[p] = "written" =>
            /\ disk["chainId"] = (IF local[p].before = Absent THEN ChainId
                                  ELSE local[p].before["chainId"])
            /\ \E n \in 1..Len(disk["history"]) :
                  LET new == disk["history"][n] IN
                  /\ SameEntries(RemoveAt(disk["history"], n),
                                 HistoryOf(local[p].before))
                  /\ DOMAIN new["contracts"] = {local[p].contract_name}
                  /\ new["contracts"][local[p].contract_name]["proxy"] = FALSE
                  /\ DenotesAddress(
                        new["contracts"][local[p].contract_name]["address"],
                        local[p].contract_address)
                  /\ ~HasKey(new, "commitHash")

\* a file of another tool with two entries, one with commitHash, was loaded
C10_Witness ==
    /\ pc["A"] = "written"
    /\ Len(HistoryOf(local["A"].before)) >= 2
    /\ \E n \in 1..Len(disk["history"]) : HasKey(disk["history"][n], "commitHash")
    /\ Len(disk["history"]) = Len(HistoryOf(local["A"].before)) + 1

(* C11: in every log a registration has written, the keys of latest are     *)
(* exactly the contract names that occur in the entries of history; a key   *)
(* of the loaded latest that no entry carries is gone.                      *)
C11_LatestKeysAreHistoryNames ==
    Len(wrote) > 0 => DOMAIN disk["latest"] = NamesIn(disk["history"])

\* the file started with the key "Gone" in latest and has been written
C11_Witness ==
    /\ initLog # Absent
    /\ "Gone" \in DOMAIN initLog["latest"]
    /\ "Gone" \notin NamesIn(initLog["history"])
    /\ Len(wrote) > 0
    /\ "Gone" \notin DOMAIN disk["latest"]

\* value v is, or contains inside tuples, an array or a fixed-size array
RECURSIVE HasArray(_)
HasArray(v) ==
    \/ v.kind \in {"Array", "FixedArray"}
    \/ /\ v.kind = "Tuple"
       /\ \E n \in 1..Len(v.val) : HasArray(v.val[n])

\* call p is about to build the entry of a contract whose constructor
\* arguments contain an array
AtArrayInput(p) ==
    /\ pc[p] = "checked"
    /\ local[p].ctor.constructor # None
    /\ \E n \in 1..Len(local[p].ctor.args) : HasArray(local[p].ctor.args[n])

(* C12: when a constructor argument is an array or a fixed-size array, at   *)
(* the top level or inside tuples, the constructor input is the             *)
(* unsupported-type error and no mapping; the registration then ends with   *)
(* an error, appends no entry and leaves the file as it was.                *)
C12_ArrayRejected ==
    [][\A p \in SeqProcs :
          AtArrayInput(p) =>
             /\ ConstructorInput(local[p].ctor) = [err |-> "UnsupportedAbiType"]
             /\ pc'[p] # pc[p] =>
                   /\ pc'[p] = "done"
                   /\ result'[p] \in {"UnsupportedAbiType", "ExplorerError",
                                      "ChainError", "DecodeError"}
                   /\ ~HasKey(local'[p], "deployments_json")
                   /\ disk' = disk
                   /\ wrote' = wrote]_vars

\* a registration has ended with the unsupported-type error, file untouched
C12_Witness ==
    \E p \in SeqProcs :
        /\ pc[p] = "done"
        /\ result[p] = "UnsupportedAbiType"
        /\ disk = local[p].before
        /\ Len(wrote) > 0

\* mapping m has one key per parameter, at this level and inside every tuple
RECURSIVE OneKeyPerParam(_, _)
OneKeyPerParam(params, args) ==
    LET r == extract_constructor_inputs(params, args) IN
    /\ ~IsErr(r)
    /\ Cardinality(DOMAIN r.ok) = Len(params)
    /\ \A n \in 1..Len(params) :
          args[n].kind = "Tuple" => OneKeyPerParam(params[n].components, args[n].val)

(* C13: for a parameter list without arrays, the mapping returned by        *)
(* extract_constructor_inputs has exactly one key per parameter at the top  *)
(* level and at every tuple level, also when names are empty or repeated,   *)
(* and it is empty for zero parameters.                                     *)
C13_OneKeyPerParameter ==
    sz.stage = "done" =>
        /\ OneKeyPerParam(sz.params, sz.args)
        /\ Len(sz.params) = 0 => sz.out = [ok |-> EmptyObject]

\* the entries of history h that carry timestamp t, in the order of h
AtTimestamp(h, t) ==
    LET Carries(e) == e["timestamp"] = t IN SelectSeq(h, Carries)

(* C14: the entries of the reconciled history that share a timestamp are in *)
(* the same relative order as in the history given to the reconciler.       *)
C14_TiesKeepOrder ==
    rc.stage \in {"once", "twice"} =>
        \A t \in 1..MaxRcTs :
            AtTimestamp(rc.once["history"], t) = AtTimestamp(rc.json["history"], t)

\* every field of the latest record lat comes from record k of entry item,
\* and lat has no other field
WhollyFrom(lat, item, k) ==
    /\ TakenFrom(lat, item, k)
    /\ lat["proxy"] = item["contracts"][k]["proxy"]
    /\ DOMAIN lat \subseteq {"address", "proxy", "deploymentTxn", "timestamp",
                             "commitHash", "poolInitCodeHash"}

(* C15: for every name, latest[name] is wholly taken from one history entry *)
(* that contains the name: address, proxy, deploymentTxn and                *)
(* poolInitCodeHash (if any) of its record, timestamp and commitHash (if    *)
(* any) of the entry, and nothing else.                                     *)
C15_OneWinningEntry ==
    \A out \in RcOutputs :
        \A k \in DOMAIN out["latest"] :
            \E n \in EntriesWith(out["history"], k) :
                WhollyFrom(out["latest"][k], out["history"][n], k)

\* a name whose winning entry has no commitHash and no proxy mark while a
\* losing entry for the same name has both
C15_Witness ==
    /\ rc.stage = "once"
    /\ \E k \in DOMAIN rc.once["latest"] :
          \E n, m \in EntriesWith(rc.once["history"], k) :
              /\ WhollyFrom(rc.once["latest"][k], rc.once["history"][n], k)
              /\ ~HasKey(rc.once["latest"][k], "commitHash")
              /\ HasKey(rc.once["history"][m], "commitHash")
              /\ rc.once["history"][m]["contracts"][k]["proxy"]
              /\ ~rc.once["latest"][k]["proxy"]
              /\ HasKey(rc.once["latest"][k], "poolInitCodeHash")

\* the three fields of a latest record that identify the deployment
SameDeployment(x, y) ==
    /\ x["address"] = y["address"]
    /\ x["deploymentTxn"] = y["deploymentTxn"]
    /\ x["timestamp"] = y["timestamp"]

(* C16: when a registration of a contract named X has written a log that    *)
(* earlier registrations of this program, all of different addresses, built *)
(* from an absent file, latest[Y] of every other name Y of the loaded log   *)
(* has the address, deploymentTxn and timestamp it had in the loaded log.   *)
C16_OtherNamesUntouched ==
    \A p \in SeqProcs :
        (pc[p] = "written" /\ Len(wrote) >= 2 /\ initLog = Absent /\ NoRepeats(wrote))
        => \A y \in DOMAIN local[p].before["latest"] \ {local[p].contract_name} :
              /\ HasKey(disk["latest"], y)
              /\ SameDeployment(disk["latest"][y], local[p].before["latest"][y])

(* C17: once the documentation generator is installed, a registration of an *)
(* address whose earlier registration ended only with the generator missing *)
(* is not rejected as a duplicate.                                          *)
C17_RetryNotDuplicate ==
    \A p \in SeqProcs :
        (/\ pc[p] = "done"
         /\ Started(p)
         /\ local[p].contract_address \in docFailed
         /\ chronicles)
        => result[p] # "DuplicateContract"

\* the n-th result of next_screen on a new workflow without child workflows
ExpectedScreen(n) ==
    IF n = 1 THEN "ChainIdScreen"
    ELSE IF n = 2 THEN "RpcUrlScreen"
    ELSE IF n = 3 THEN "EnterAddressScreen"
    ELSE "Finished"

(* C18: as long as a new workflow has only received next_screen calls with  *)
(* no child workflows, the n-th call shows ChainId, RpcUrl, EnterAddress    *)
(* for n = 1, 2, 3 and returns Finished from the fourth on; a next_screen   *)
(* call adds one to current_screen and shows the workflow's own screen when *)
(* the child workflows report Finished, and leaves current_screen alone and *)
(* shows the child's screen otherwise.                                      *)
C18_NextScreenOrder ==
    wf.stage = "on" =>
        /\ wf.onlyNext =>
              /\ Len(wf.straight) = wf.current_screen
              /\ \A n \in 1..Len(wf.straight) : wf.straight[n] = ExpectedScreen(n)
        /\ wf.last.op = "next" =>
              IF wf.last.nested = "Finished"
              THEN /\ wf.current_screen = wf.last.current_screen + 1
                   /\ wf.shown = ExpectedScreen(wf.current_screen)
              ELSE /\ wf.current_screen = wf.last.current_screen
                   /\ wf.shown = "ChildScreen"

\* four next_screen calls on a new workflow, the fourth returned Finished
C18_Witness ==
    /\ wf.stage = "on"
    /\ wf.onlyNext
    /\ wf.straight = <<"ChainIdScreen", "RpcUrlScreen", "EnterAddressScreen",
                       "Finished">>

(* C19: once the first screen has been shown current_screen is at least 1;  *)
(* previous_screen at current_screen = 1 leaves it at 1 and shows the       *)
(* ChainId screen, and previous_screen never takes more than one from       *)
(* current_screen nor adds to it.                                           *)
C19_NeverBelowFirst ==
    wf.stage = "on" =>
        /\ wf.firstShown => wf.current_screen >= 1
        /\ wf.last.op = "previous" =>
              /\ wf.current_screen <= wf.last.current_screen
              /\ wf.current_screen + 1 >= wf.last.current_screen
              /\ wf.last.current_screen = 1 =>
                    /\ wf.current_screen = 1
                    /\ wf.shown = "ChainIdScreen"

\* previous_screen has been called at the ChainId screen
C19_Witness ==
    /\ wf.stage = "on"
    /\ wf.firstShown
    /\ wf.last.op = "previous"
    /\ wf.last.current_screen = 1
    /\ wf.shown = "ChainIdScreen"

(* C20: handle_error never changes current_screen; for a ConnectionError at *)
(* current_screen = 2 it clears the stored RPC URL and shows the RpcUrl     *)
(* screen; for every other error or screen it returns Finished and the      *)
(* stored RPC URL is as before.                                             *)
C20_RecoversOnlyAtRpcUrl ==
    (wf.stage = "on" /\ wf.last.op = "error") =>
        /\ wf.current_screen = wf.last.current_screen
        /\ IF wf.last.current_screen = 2 /\ wf.last.error = "ConnectionError"
           THEN /\ wf.rpc_url = None
                /\ wf.shown = "RpcUrlScreen"
           ELSE /\ wf.rpc_url = wf.last.rpc_url
                /\ wf.shown = "Finished"

\* a ConnectionError at the address-entry screen with an RPC URL stored
C20_Witness ==
    /\ wf.stage = "on"
    /\ wf.last.op = "error"
    /\ wf.last.current_screen = 3
    /\ wf.last.error = "ConnectionError"
    /\ wf.last.rpc_url = SomeUrl
    /\ wf.rpc_url = SomeUrl
    /\ wf.shown = "Finished"

====
